---------------------------- MODULE Spec2Model ----------------------------
(***************************************************************************)
(* Model of src/hello_lg2.py: the arithmetic assistant (variant 1, lines   *)
(* 1-147) and the Siebel product-model assistant (variant 2, lines         *)
(* 150-388).                                                               *)
(*                                                                         *)
(* A Python str is a sequence of tokens.  A token is a TLA+ string that    *)
(* stands for a run of characters containing no space, comma or newline;   *)
(* " ", "," and "\n" are tokens of their own, so that str.split(","),      *)
(* str.replace(" ", "_"), str.startswith and "\n".join act on the model    *)
(* as they act on the text.  Variant 1 texts are sequences of single       *)
(* characters.                                                             *)
(***************************************************************************)
EXTENDS Integers, Sequences, FiniteSets, TLC

(***************************************************************************)
(* Bounds of the model.                                                    *)
(***************************************************************************)
\* longest action list the classifier returns in one response
MaxActions == 3
\* calls of graph.invoke in one session, first invocations and re-invocations
MaxInvokes == 2
\* longest variant-1 input text, in characters
MaxTextLen == 5

(***************************************************************************)
(* Python str operations, on token sequences.                              *)
(***************************************************************************)
EmptyStr == << >>

Space == " "

Comma == ","

Newline == "\n"

\* not s : the empty string is falsy
Falsy(s) == s = EmptyStr

StartsWith(s, prefix) ==
    /\ Len(s) >= Len(prefix)
    /\ SubSeq(s, 1, Len(prefix)) = prefix

\* s.replace(old, new) for a one-token old
ReplaceTok(s, old, new) ==
    LET RECURSIVE go(_)
        go(i) == IF i > Len(s) THEN << >>
                 ELSE (IF s[i] = old THEN new ELSE <<s[i]>>) \o go(i + 1)
    IN go(1)

\* s.split(sep) for a one-token sep: always at least one piece
Split(s, sep) ==
    LET RECURSIVE go(_, _)
        go(i, cur) == IF i > Len(s) THEN <<cur>>
                      ELSE IF s[i] = sep THEN <<cur>> \o go(i + 1, << >>)
                      ELSE go(i + 1, Append(cur, s[i]))
    IN go(1, << >>)

\* sep.join(parts)
Join(sep, parts) ==
    LET RECURSIVE go(_)
        go(i) == IF i > Len(parts) THEN << >>
                 ELSE IF i = 1 THEN parts[1] \o go(2)
                 ELSE sep \o parts[i] \o go(i + 1)
    IN go(1)

\* str.lower() of one token: the cased tokens of the vocabulary
LowerTok(t) ==
    CASE t = "MISSING_FIELDS:" -> "missing_fields:"
      [] t = "EXIT" -> "exit"
      [] t = "Quit" -> "quit"
      [] t = "Product" -> "product"
      [] t = "Name" -> "name"
      [] t = "Price" -> "price"
      [] t = "List" -> "list"
      [] t = "Currency" -> "currency"
      [] t = "Code" -> "code"
      [] t = "Promotion" -> "promotion"
      [] t = "Class" -> "class"
      [] t = "Line" -> "line"
      [] t = "Attributes" -> "attributes"
      [] t = "Eligibility" -> "eligibility"
      [] t = "Compatibility" -> "compatibility"
      [] t = "Created" -> "created"
      [] t = "Unknown" -> "unknown"
      [] t = "You" -> "you"
      [] t = "Sample" -> "sample"
      [] t = "REST" -> "rest"
      [] t = "Siebel" -> "siebel"
      [] t = "\"PriceListId\":" -> "\"pricelistid\":"
      [] t = "\"ProductId\":" -> "\"productid\":"
      [] t = "\"Price\":" -> "\"price\":"
      [] t = "\"Currency\":" -> "\"currency\":"
      [] t = "\"SWIISSPriceListItemIO\":" -> "\"swiisspricelistitemio\":"
      [] t = "CREATEPRODUCT" -> "createproduct"
      [] t = "CREATEPRICELIST" -> "createpricelist"
      [] t = "CREATEPROMOTION" -> "createpromotion"
      [] t = "FOO" -> "foo"
      [] t = "Widget" -> "widget"
      [] t = "Gadget" -> "gadget"
      [] t = "Sale" -> "sale"
      [] t = "NA" -> "na"
      [] t = "USD" -> "usd"
      [] t = "User" -> "user"
      [] t = "Input" -> "input"
      [] t = "Make" -> "make"
      [] OTHER -> t

\* str.upper() of one token
UpperTok(t) ==
    CASE t = "createproduct" -> "CREATEPRODUCT"
      [] t = "createpricelist" -> "CREATEPRICELIST"
      [] t = "createpromotion" -> "CREATEPROMOTION"
      [] t = "foo" -> "FOO"
      [] t = "Foo" -> "FOO"
      [] OTHER -> t

Lower(s) == [i \in 1..Len(s) |-> LowerTok(s[i])]

Upper(s) == [i \in 1..Len(s) |-> UpperTok(s[i])]

(***************************************************************************)
(* Variant 2 tools (lines 180-265).  A tool returns a str or a dict; the   *)
(* record says which.                                                      *)
(***************************************************************************)
MISSING_FIELDS == "MISSING_FIELDS:"

StrResult(s) == [isDict |-> FALSE, str |-> s, ProductId |-> EmptyStr, name |-> EmptyStr]

DictResult(id, n) == [isDict |-> TRUE, str |-> EmptyStr, ProductId |-> id, name |-> n]

\* create_product: the identifier is the uuid4 the caller hands in
create_product(name, uuid) ==
    IF Falsy(name)
    THEN StrResult(<<MISSING_FIELDS, "Product", Space, "Name">>)
    ELSE DictResult(uuid, name)

\* Faulty variant of missing_fields: the test of price is left out.
missing_fields_no_price(name, product, price, currency) ==
    (IF Falsy(name) THEN <<(<<"Price", Space, "List", Space, "Name">>)>> ELSE << >>)
    \o (IF Falsy(product) THEN <<(<<"Product">>)>> ELSE << >>)
    \o (IF Falsy(currency) THEN <<(<<"Currency", Space, "Code">>)>> ELSE << >>)

\* the labels of the empty arguments of create_pricelist, in the order of its tests
missing_fields(name, product, price, currency) ==
    (IF Falsy(name) THEN <<(<<"Price", Space, "List", Space, "Name">>)>> ELSE << >>)
    \o (IF Falsy(product) THEN <<(<<"Product">>)>> ELSE << >>)
    \o (IF Falsy(price) THEN <<(<<"Price">>)>> ELSE << >>)
    \o (IF Falsy(currency) THEN <<(<<"Currency", Space, "Code">>)>> ELSE << >>)

\* product_ids.get(product, product) if product_ids else product
ResolveProduct(product, product_ids) ==
    IF DOMAIN product_ids # {} /\ product \in DOMAIN product_ids
    THEN product_ids[product]
    ELSE product

\* json.dumps of a str that needs no escaping
JsonStr(s) == <<"\"">> \o s \o <<"\"">>

\* the line break and indentation json.dumps(..., indent=2) puts before a key
Indent(n) == <<Newline>> \o [i \in 1..n |-> Space]

\* f"Sample REST request for Siebel price list item:\n{json.dumps(payload, indent=2)}"
PricelistText(name, product_id, price, currency) ==
    <<"Sample", Space, "REST", Space, "request", Space, "for", Space, "Siebel",
      Space, "price", Space, "list", Space, "item:", Newline, "{">>
    \o Indent(2) \o <<"\"SWIISSPriceListItemIO\":", Space, "{">>
    \o Indent(4) \o <<"\"PriceListId\":", Space>> \o JsonStr(name) \o <<Comma>>
    \o Indent(4) \o <<"\"ProductId\":", Space>> \o JsonStr(product_id) \o <<Comma>>
    \o Indent(4) \o <<"\"Price\":", Space>> \o JsonStr(price) \o <<Comma>>
    \o Indent(4) \o <<"\"Currency\":", Space>> \o JsonStr(currency)
    \o Indent(2) \o <<"}", Newline, "}">>

create_pricelist(name, product, price, currency, product_ids) ==
    LET missing == missing_fields(name, product, price, currency)
    IN IF missing # << >>
       THEN StrResult(<<MISSING_FIELDS>> \o Join(<<Comma>>, missing))
       ELSE StrResult(PricelistText(name, ResolveProduct(product, product_ids),
                                    price, currency))

create_promotion(name) ==
    IF Falsy(name)
    THEN StrResult(<<MISSING_FIELDS, "Promotion", Space, "Name">>)
    ELSE StrResult(<<"Created", Space, "promotion:", Space>> \o name)


create_product_class(name) ==
    IF Falsy(name)
    THEN StrResult(<<MISSING_FIELDS, "Product", Space, "Class", Space, "Name">>)
    ELSE StrResult(<<"Created", Space, "product", Space, "class:", Space>> \o name)

create_product_line(name) ==
    IF Falsy(name)
    THEN StrResult(<<MISSING_FIELDS, "Product", Space, "Line", Space, "Name">>)
    ELSE StrResult(<<"Created", Space, "product", Space, "line:", Space>> \o name)

create_product_attributes(name) ==
    IF Falsy(name)
    THEN StrResult(<<MISSING_FIELDS, "Product", Space, "Attributes", Space, "Name">>)
    ELSE StrResult(<<"Created", Space, "product", Space, "attributes:", Space>> \o name)

create_product_eligibility(name) ==
    IF Falsy(name)
    THEN StrResult(<<MISSING_FIELDS, "Product", Space, "Eligibility", Space, "Name">>)
    ELSE StrResult(<<"Created", Space, "product", Space, "eligibility", Space,
                     "for:", Space>> \o name)

create_product_compatibility(name) ==
    IF Falsy(name)
    THEN StrResult(<<MISSING_FIELDS, "Product", Space, "Compatibility", Space, "Name">>)
    ELSE StrResult(<<"Created", Space, "product", Space, "compatibility", Space,
                     "for:", Space>> \o name)

(***************************************************************************)
(* uuid.uuid4(): the n-th identifier minted by the process.  Identifiers   *)
(* are pairwise distinct; the counter stands for the generator's state.    *)
(***************************************************************************)
DigitTok == <<"0", "1", "2", "3", "4", "5", "6", "7", "8", "9">>

uuid4(n) == <<"uuid-", DigitTok[((n \div 10) % 10) + 1], DigitTok[(n % 10) + 1]>>

(***************************************************************************)
(* The classifier's reply and json.loads (lines 287-294).                  *)
(*                                                                         *)
(* A reply is unparseable text, a JSON value that is not an object, or an  *)
(* object.  An object may lack "actions"; an entry of "actions" is an      *)
(* object whose keys are a subset of type/name/product/price/currency and  *)
(* whose "type", when present, is a string or some other JSON value.       *)
(***************************************************************************)
Action(keys, typeIsStr, type, name, product, price, currency) ==
    [keys |-> keys, typeIsStr |-> typeIsStr, type |-> type, name |-> name,
     product |-> product, price |-> price, currency |-> currency]

\* dict.get(key, "") on an action entry
ActionGet(action, key) ==
    IF key \in action.keys THEN action[key] ELSE EmptyStr

Reply(parseable, isObject, hasActions, actions) ==
    [parseable |-> parseable, isObject |-> isObject, hasActions |-> hasActions,
     actions |-> actions]

Data(isObject, hasActions, actions) ==
    [isObject |-> isObject, hasActions |-> hasActions, actions |-> actions]

\* try: json.loads(text) except JSONDecodeError: {"actions": []}
ParseReply(reply) ==
    IF reply.parseable
    THEN Data(reply.isObject, reply.hasActions, reply.actions)
    ELSE Data(TRUE, TRUE, << >>)

(***************************************************************************)
(* dispatcher (lines 299-348).                                             *)
(***************************************************************************)
\* json.dumps(result, indent=2) of create_product's dict
JsonDumps(d) ==
    <<"{">> \o Indent(2) \o <<"\"ProductId\":", Space>> \o JsonStr(d.ProductId)
    \o <<Comma>> \o Indent(2) \o <<"\"name\":", Space>> \o JsonStr(d.name)
    \o <<Newline, "}">>

\* lines 339-343: what one tool result adds to results
ResultText(r) == IF r.isDict THEN JsonDumps(r) ELSE r.str

UnknownAction(action_type) ==
    <<"Unknown", Space, "action:", Space>> \o action_type

\* tool_map (lines 321-329)
ToolTypes ==
    {"CREATEPROMOTION", "CREATEPRODUCT", "CREATEPRODUCTCLASS", "CREATEPRODUCTLINE",
     "CREATEPRODUCTATTRIBUTES", "CREATEPRODUCTELIGIBILITY",
     "CREATEPRODUCTCOMPATIBILITY"}

\* tool_fn.invoke({"name": name}) for a type of tool_map
InvokeTool(tool, name, uuid) ==
    CASE tool = "CREATEPROMOTION" -> create_promotion(name)
      [] tool = "CREATEPRODUCT" -> create_product(name, uuid)
      [] tool = "CREATEPRODUCTCLASS" -> create_product_class(name)
      [] tool = "CREATEPRODUCTLINE" -> create_product_line(name)
      [] tool = "CREATEPRODUCTATTRIBUTES" -> create_product_attributes(name)
      [] tool = "CREATEPRODUCTELIGIBILITY" -> create_product_eligibility(name)
      [] tool = "CREATEPRODUCTCOMPATIBILITY" -> create_product_compatibility(name)

\* dict item assignment d[k] = v
Put(d, k, v) == [x \in DOMAIN d \cup {k} |-> IF x = k THEN v ELSE d[x]]

EmptyDict == [x \in {} |-> EmptyStr]

\* Faulty variant of StoreProductId: the identifier is not recorded.
StoreNothing(table, action_type, name, r) == table

\* lines 334-335: the table after a tool ran
StoreProductId(table, action_type, name, r) ==
    IF action_type = <<"CREATEPRODUCT">> /\ r.isDict
    THEN Put(table, name, r.ProductId)
    ELSE table

\* The loop's locals: results, state["product_ids"], the identifiers minted so
\* far, and whether an exception left the loop.
Locals(crashed, results, table, minted) ==
    [crashed |-> crashed, results |-> results, table |-> table, minted |-> minted]

\* one iteration of the for loop (lines 306-343)
DispatchAction(action, loc) ==
    IF ~action.typeIsStr /\ "type" \in action.keys
    THEN \* action.get("type", "").upper() on a non-string: AttributeError
         [loc EXCEPT !.crashed = TRUE]
    ELSE
      LET action_type == Upper(ActionGet(action, "type"))
          name == ActionGet(action, "name")
      IN IF action_type = <<"CREATEPRICELIST">>
         THEN LET r == create_pricelist(name, ActionGet(action, "product"),
                                        ActionGet(action, "price"),
                                        ActionGet(action, "currency"), loc.table)
              IN [loc EXCEPT !.results = Append(@, ResultText(r))]
         ELSE IF Len(action_type) = 1 /\ action_type[1] \in ToolTypes
         THEN LET mints == action_type = <<"CREATEPRODUCT">> /\ ~Falsy(name)
                  r == InvokeTool(action_type[1], name, uuid4(loc.minted + 1))
              IN [loc EXCEPT !.results = Append(@, ResultText(r)),
                             !.table = StoreProductId(@, action_type, name, r),
                             !.minted = IF mints THEN @ + 1 ELSE @]
         ELSE [loc EXCEPT !.results = Append(@, UnknownAction(action_type))]

\* the for loop: stops at the first exception
RECURSIVE DispatchLoop(_, _, _)
DispatchLoop(actions, i, loc) ==
    IF i > Len(actions) \/ loc.crashed THEN loc
    ELSE DispatchLoop(actions, i + 1, DispatchAction(actions[i], loc))

\* state.get('user_input', '')
StateGet(st, key) == IF key \in DOMAIN st THEN st[key] ELSE EmptyStr

UserInputKey == <<"user", "_", "input">>

\* dispatcher(state): the node's input holds no "product_ids" (the session's
\* dict never carries the key), so lines 303-304 start every run from {}.
Dispatcher(data, st, minted) ==
    IF ~data.isObject
    THEN \* state.get("llm_response", {}).get(...) on a non-dict: AttributeError
         Locals(TRUE, << >>, EmptyDict, minted)
    ELSE
      LET actions == IF data.hasActions THEN data.actions ELSE << >>
          loc == DispatchLoop(actions, 1, Locals(FALSE, << >>, EmptyDict, minted))
      IN IF ~loc.crashed /\ loc.results = << >>
         THEN [loc EXCEPT !.results =
                 <<(<<"You", Space, "said:", Space>> \o StateGet(st, UserInputKey))>>]
         ELSE loc

\* "\n".join(results)
ResultOf(loc) == Join(<<Newline>>, loc.results)

(***************************************************************************)
(* Inputs of the variant-2 session: console lines, values typed at a       *)
(* field prompt, and classifier replies.                                   *)
(***************************************************************************)
UserInputs == {<<"exit">>, <<"Quit">>, <<"Make", Space, "Widget">>}

\* any text is a value for a field, the exit word included
FieldValues == {EmptyStr, <<"USD">>, <<"exit">>}

AllKeys == {"type", "name", "product", "price", "currency"}

ProductWidget ==
    Action({"type", "name"}, TRUE, <<"CREATEPRODUCT">>, <<"Widget">>,
           EmptyStr, EmptyStr, EmptyStr)

ProductNoName ==
    Action({"type", "name"}, TRUE, <<"CREATEPRODUCT">>, EmptyStr,
           EmptyStr, EmptyStr, EmptyStr)

PricelistFull ==
    Action(AllKeys, TRUE, <<"CREATEPRICELIST">>, <<"NA">>,
           <<"Widget">>, <<"1000">>, <<"USD">>)

PricelistNoCurrency ==
    Action(AllKeys \ {"currency"}, TRUE, <<"CREATEPRICELIST">>, <<"NA">>,
           <<"Widget">>, <<"1000">>, EmptyStr)

PromotionSale ==
    Action({"type", "name"}, TRUE, <<"CREATEPROMOTION">>, <<"Sale">>,
           EmptyStr, EmptyStr, EmptyStr)

\* a name with a comma in it: "Sale,User Input"
PromotionComma ==
    Action({"type", "name"}, TRUE, <<"CREATEPROMOTION">>,
           <<"Sale", Comma, "User", Space, "Input">>, EmptyStr, EmptyStr, EmptyStr)

\* a type outside tool_map, in lower case
UnknownFoo ==
    Action({"type", "name"}, TRUE, <<"foo">>, <<"Sale">>, EmptyStr, EmptyStr, EmptyStr)

\* an entry without "type"
NoType ==
    Action({"name"}, TRUE, EmptyStr, <<"Sale">>, EmptyStr, EmptyStr, EmptyStr)

\* an entry whose "type" is null or a number
NonStringType ==
    Action({"type", "name"}, FALSE, EmptyStr, <<"Sale">>, EmptyStr, EmptyStr, EmptyStr)

Entries ==
    {ProductWidget, ProductNoName, PricelistFull, PricelistNoCurrency, PromotionSale,
     PromotionComma, UnknownFoo, NoType, NonStringType}

ActionLists == UNION {[1..n -> Entries] : n \in 0..MaxActions}

Unparseable == Reply(FALSE, FALSE, FALSE, << >>)

NonObject == Reply(TRUE, FALSE, FALSE, << >>)

NoActionsKey == Reply(TRUE, TRUE, FALSE, << >>)

\* the entries a reply of the session is made of
SessionEntries ==
    {ProductWidget, ProductNoName, PricelistNoCurrency, PromotionComma, NoType,
     NonStringType}

\* the classifier's replies in a session: no action, one action, or two
Replies ==
    {Unparseable, NonObject, NoActionsKey, Reply(TRUE, TRUE, TRUE, << >>)}
    \cup {Reply(TRUE, TRUE, TRUE, <<a>>) : a \in SessionEntries}
    \cup {Reply(TRUE, TRUE, TRUE, <<a, b>>) : a, b \in SessionEntries}

(***************************************************************************)
(* The variant-2 CLI loop (lines 365-388).                                 *)
(***************************************************************************)
VARIABLES
    pc,            \* awaiting_input | invoking | awaiting_missing_field | done | crashed
    state,         \* the session's dict `state` (line 367)
    user,          \* the last line read at "You: " (line 370)
    value,         \* the last line read at a field prompt (line 383)
    llm_response,  \* interpret's parsed reply of the last invocation
    results,       \* dispatcher's list `results` of the last invocation
    result,        \* new_state["result"] of the last invocation
    product_ids,   \* dispatcher's state["product_ids"] at the end of the last invocation
    fields,        \* the fields still to be prompted for (line 382)
    printed,       \* what line 387 printed after "Bot:" in the current turn
    minted,        \* identifiers minted by uuid4 so far
    invokes,       \* calls of graph.invoke started or committed to so far
    toolArgs,      \* arguments of a tool called on its own
    toolRet,       \* what that call returned
    toolPc         \* idle | chosen | returned

vars == <<pc, state, user, value, llm_response, results, result, product_ids, fields,
          printed, minted, invokes, toolArgs, toolRet, toolPc>>

toolVars == <<toolArgs, toolRet, toolPc>>

sessionVars == <<pc, state, user, value, llm_response, results, result, product_ids,
                 fields, printed, minted, invokes>>

NoArgs == [tool |-> "none"]

NoRet == [kind |-> "none"]

SessionInit ==
    /\ pc = "awaiting_input"
    /\ state = EmptyDict
    /\ user = EmptyStr
    /\ value = EmptyStr
    /\ llm_response = Data(TRUE, TRUE, << >>)
    /\ results = << >>
    /\ result = EmptyStr
    /\ product_ids = EmptyDict
    /\ fields = << >>
    /\ printed = EmptyStr
    /\ minted = 0
    /\ invokes = 0

Init ==
    /\ SessionInit
    /\ toolArgs = NoArgs
    /\ toolRet = NoRet
    /\ toolPc = "idle"

\* user.lower() in ("exit", "quit")
IsExit(u) == Lower(u) \in {<<"exit">>, <<"quit">>}

\* field.lower().replace(" ", "_")
FieldKey(field) == ReplaceTok(Lower(field), Space, <<"_">>)

\* result.replace("MISSING_FIELDS:", "").split(",")
FieldsOf(res) == Split(ReplaceTok(res, MISSING_FIELDS, << >>), Comma)

\* result.startswith("MISSING_FIELDS:")
IsSentinel(res) == StartsWith(res, <<MISSING_FIELDS>>)

\* lines 370-373: "exit" or "quit" at the command prompt
UserExit ==
    /\ pc = "awaiting_input"
    /\ \E u \in UserInputs :
         /\ IsExit(u)
         /\ user' = u
    /\ pc' = "done"
    /\ UNCHANGED <<state, value, llm_response, results, result, product_ids, fields,
                   printed, minted, invokes, toolVars>>

\* lines 370-374: any other line becomes state["user_input"]
UserCommand ==
    /\ pc = "awaiting_input"
    /\ invokes < MaxInvokes
    /\ \E u \in UserInputs :
         /\ ~IsExit(u)
         /\ user' = u
         /\ state' = Put(state, UserInputKey, u)
    /\ pc' = "invoking"
    /\ invokes' = invokes + 1
    /\ printed' = EmptyStr
    /\ UNCHANGED <<value, llm_response, results, result, product_ids, fields,
                   minted, toolVars>>

\* lines 377-388: graph.invoke(state) runs interpret, then dispatcher; the
\* result is either taken apart into the fields to prompt for, or printed.
Invoke ==
    /\ pc = "invoking"
    /\ \E reply \in Replies :
         LET data == ParseReply(reply)
             loc == Dispatcher(data, state, minted)
             res == ResultOf(loc)
         IN /\ llm_response' = data
            /\ results' = loc.results
            /\ product_ids' = loc.table
            /\ minted' = loc.minted
            /\ IF loc.crashed
               THEN /\ pc' = "crashed"
                    /\ UNCHANGED <<result, fields, printed>>
               ELSE /\ result' = res
                    /\ IF IsSentinel(res)
                       THEN /\ fields' = FieldsOf(res)
                            /\ pc' = "awaiting_missing_field"
                            /\ UNCHANGED printed
                       ELSE /\ printed' = res
                            /\ fields' = << >>
                            /\ pc' = "awaiting_input"
    /\ UNCHANGED <<state, user, value, invokes, toolVars>>

\* Faulty variant of ProvideField: the field prompt honours the exit word as the
\* command prompt does.
ProvideFieldHonoursExit ==
    /\ pc = "awaiting_missing_field"
    /\ invokes < MaxInvokes
    /\ \E v \in FieldValues :
         /\ value' = v
         /\ IF IsExit(v)
            THEN /\ pc' = "done"
                 /\ UNCHANGED <<state, fields, invokes>>
            ELSE /\ state' = Put(state, FieldKey(Head(fields)), v)
                 /\ fields' = Tail(fields)
                 /\ IF Tail(fields) = << >>
                    THEN /\ pc' = "invoking"
                         /\ invokes' = invokes + 1
                    ELSE UNCHANGED <<pc, invokes>>
    /\ UNCHANGED <<user, llm_response, results, result, product_ids, printed, minted,
                   toolVars>>

\* lines 382-385: one field prompt; after the last one the graph is re-invoked
ProvideField ==
    /\ pc = "awaiting_missing_field"
    /\ invokes < MaxInvokes
    /\ \E v \in FieldValues :
         /\ value' = v
         /\ state' = Put(state, FieldKey(Head(fields)), v)
    /\ fields' = Tail(fields)
    /\ IF Tail(fields) = << >>
       THEN /\ pc' = "invoking"
            /\ invokes' = invokes + 1
       ELSE UNCHANGED <<pc, invokes>>
    /\ UNCHANGED <<user, llm_response, results, result, product_ids, printed, minted,
                   toolVars>>

Next == UserExit \/ UserCommand \/ Invoke \/ ProvideField

Spec == Init /\ [][Next]_vars

(***************************************************************************)
(* Claims about the variant-2 session, checked under Spec.                 *)
(***************************************************************************)
\* the tokens of text s
Tokens(s) == {s[i] : i \in 1..Len(s)}

\* the field names a tool can list after MISSING_FIELDS:
Labels ==
    {<<"Product", Space, "Name">>, <<"Price", Space, "List", Space, "Name">>,
     <<"Product">>, <<"Price">>, <<"Currency", Space, "Code">>,
     <<"Promotion", Space, "Name">>, <<"Product", Space, "Class", Space, "Name">>,
     <<"Product", Space, "Line", Space, "Name">>,
     <<"Product", Space, "Attributes", Space, "Name">>,
     <<"Product", Space, "Eligibility", Space, "Name">>,
     <<"Product", Space, "Compatibility", Space, "Name">>}

\* C1: the repair loop terminates.  When the graph is re-invoked after a
\* sentinel result, the user has given a non-empty value for every listed field
\* and the classifier returns the same reply as before, the new result is not a
\* sentinel: it is printed and the session is back at awaiting_input.
C1_RepairTerminates ==
    [][(/\ pc = "invoking"
        /\ IsSentinel(result)
        /\ llm_response' = llm_response
        /\ \A i \in 1..Len(FieldsOf(result)) :
             ~Falsy(StateGet(state, FieldKey(FieldsOf(result)[i]))))
       => (pc' = "awaiting_input" /\ printed' = result' /\ ~IsSentinel(result'))]_vars

\* C2: the name->identifier table only grows.  A name that is a key of the
\* table at the end of one turn is still a key at the end of the first
\* invocation of the next turn.
C2_TableOnlyGrows ==
    [][(pc = "invoking" /\ ~IsSentinel(result) /\ pc' # "crashed")
       => DOMAIN product_ids \subseteq DOMAIN product_ids']_vars

\* C3: no classifier reply leads to a fatal error: the session is never in
\* the state an uncaught exception leaves it in.
C3_NoFatalError == pc # "crashed"

\* C4: a sentinel returned by any tool of the batch starts the repair loop with
\* exactly the listed field names, and no sentinel text is ever printed as the
\* turn's result.
C4_SentinelStartsRepair ==
    /\ MISSING_FIELDS \notin Tokens(printed)
    /\ pc = "awaiting_missing_field" => \A i \in 1..Len(fields) : fields[i] \in Labels
    /\ (pc \in {"awaiting_input", "awaiting_missing_field"}
        /\ \E i \in 1..Len(results) : IsSentinel(results[i]))
       => pc = "awaiting_missing_field"

\* C9: storing a field value changes nothing but that field's normalized key:
\* user_input and every other key of the turn state keep their values.
C9_StoreKeepsTurnState ==
    [][pc = "awaiting_missing_field"
       => /\ UserInputKey \in DOMAIN state'
          /\ state'[UserInputKey] = state[UserInputKey]
          /\ \A k \in DOMAIN state \ {FieldKey(Head(fields))} :
               k \in DOMAIN state' /\ state'[k] = state[k]]_vars

\* C10: the exit word ends the session only at the command prompt.  The
\* session ends only from awaiting_input, on an exit word; a line typed at a
\* field prompt, the exit word included, is stored under the field's key and
\* the session stays in the repair loop; awaiting_input is entered only with a
\* printed result that is not a sentinel.
C10_ExitOnlyAtCommandPrompt ==
    [][/\ (pc' = "done" /\ pc # "done") => (pc = "awaiting_input" /\ IsExit(user'))
       /\ pc = "awaiting_missing_field"
          => /\ pc' \in {"awaiting_missing_field", "invoking"}
             /\ state'[FieldKey(Head(fields))] = value'
       /\ (pc # "awaiting_input" /\ pc' = "awaiting_input")
          => (~IsSentinel(result') /\ printed' = result')]_vars

\* C10 witness: the exit word was typed at a field prompt and stored, and the
\* graph is about to be re-invoked.
C10_Witness ==
    /\ pc = "invoking"
    /\ IsSentinel(result)
    /\ IsExit(value)
    /\ \E k \in DOMAIN state : k # UserInputKey /\ state[k] = value

(***************************************************************************)
(* dispatcher run on its own on one action list: SpecBatch.                *)
(***************************************************************************)
BatchState == Put(EmptyDict, UserInputKey, <<"Make", Space, "Widget">>)

BatchInit ==
    /\ SessionInit
    /\ toolArgs \in {[tool |-> "dispatcher", actions |-> as] : as \in ActionLists}
    /\ toolRet = NoRet
    /\ toolPc = "chosen"

RunDispatcher ==
    /\ toolPc = "chosen"
    /\ toolArgs.tool = "dispatcher"
    /\ toolRet' = Dispatcher(Data(TRUE, TRUE, toolArgs.actions), BatchState, 0)
    /\ toolPc' = "returned"
    /\ UNCHANGED <<toolArgs, sessionVars>>

SpecBatch == BatchInit /\ [][RunDispatcher]_vars

\* action a reaches a tool of the lookup table or create_pricelist
KnownType(a) ==
    /\ "type" \in a.keys
    /\ a.typeIsStr
    /\ Len(a.type) = 1
    /\ UpperTok(a.type[1]) \in ToolTypes \cup {"CREATEPRICELIST"}

\* the text of a's type as the unknown-action message shows it
ShownType(a) == IF "type" \in a.keys /\ a.typeIsStr THEN Upper(a.type) ELSE EmptyStr

\* C7: an action whose type is not in the lookup table does not abort the
\* batch.  For every non-empty action list the dispatcher returns one result
\* per action, in order, and the result of an action with an unknown type is
\* "Unknown action: <TYPE>".
C7_UnknownTypeKeepsBatch ==
    (toolPc = "returned" /\ toolArgs.actions # << >>)
    => /\ ~toolRet.crashed
       /\ Len(toolRet.results) = Len(toolArgs.actions)
       /\ \A i \in 1..Len(toolArgs.actions) :
            ~KnownType(toolArgs.actions[i])
            => toolRet.results[i] = UnknownAction(ShownType(toolArgs.actions[i]))

\* action a is a CREATEPRODUCT with a name
CreatesProduct(a, n) ==
    /\ "type" \in a.keys /\ a.typeIsStr /\ Upper(a.type) = <<"CREATEPRODUCT">>
    /\ "name" \in a.keys /\ a.name = n /\ n # EmptyStr

\* action a is a CREATEPRICELIST with its four fields
CompletePricelist(a) ==
    /\ "type" \in a.keys /\ a.typeIsStr /\ Upper(a.type) = <<"CREATEPRICELIST">>
    /\ \A k \in {"name", "product", "price", "currency"} :
         k \in a.keys /\ a[k] # EmptyStr

BatchIds == {uuid4(n) : n \in 1..MaxActions}

\* C8: within one batch a created product's identifier is in the table before
\* the next action runs.  A complete CREATEPRICELIST that follows a successful
\* CREATEPRODUCT of its product name N is built with the identifier the most
\* recent such CREATEPRODUCT returned, not with N; and a CREATEPRODUCT without a
\* name adds no key.
C8_BatchSeesMintedId ==
    toolPc = "returned"
    => /\ EmptyStr \notin DOMAIN toolRet.table
       /\ \A j \in 1..Len(toolRet.results) : \A i \in 1..(j - 1) :
            LET a == toolArgs.actions[j]
                c == toolArgs.actions[i]
            IN (/\ CompletePricelist(a)
                /\ CreatesProduct(c, a.product)
                /\ \A m \in (i + 1)..(j - 1) :
                     ~CreatesProduct(toolArgs.actions[m], a.product))
               => \E id \in BatchIds :
                    /\ toolRet.results[i] = JsonDumps(DictResult(id, a.product))
                    /\ toolRet.results[j]
                         = PricelistText(a.name, id, a.price, a.currency)
                    /\ id # a.product

\* C8 witness: a batch that creates Widget and then prices it has run.
C8_Witness ==
    /\ toolPc = "returned"
    /\ ~toolRet.crashed
    /\ \E j \in 2..Len(toolArgs.actions) :
         /\ CompletePricelist(toolArgs.actions[j])
         /\ CreatesProduct(toolArgs.actions[j - 1], toolArgs.actions[j].product)
         /\ toolArgs.actions[j].product \in DOMAIN toolRet.table

(***************************************************************************)
(* create_pricelist called on its own: SpecPricelist.                      *)
(***************************************************************************)
PricelistValues == {EmptyStr, <<"Widget">>, <<"1000">>}

PricelistTables == {EmptyDict, Put(EmptyDict, <<"Widget">>, uuid4(1))}

PricelistInit ==
    /\ SessionInit
    /\ toolArgs \in {[tool |-> "create_pricelist", name |-> n, product |-> p,
                      price |-> c, currency |-> u, product_ids |-> t] :
                       n \in PricelistValues, p \in PricelistValues,
                       c \in PricelistValues, u \in PricelistValues,
                       t \in PricelistTables}
    /\ toolRet = NoRet
    /\ toolPc = "chosen"

RunPricelist ==
    /\ toolPc = "chosen"
    /\ toolArgs.tool = "create_pricelist"
    /\ toolRet' = create_pricelist(toolArgs.name, toolArgs.product, toolArgs.price,
                                   toolArgs.currency, toolArgs.product_ids)
    /\ toolPc' = "returned"
    /\ UNCHANGED <<toolArgs, sessionVars>>

SpecPricelist == PricelistInit /\ [][RunPricelist]_vars

\* the four labels in the order the claim fixes, with the argument each stands for
PricelistLabels ==
    <<[arg |-> "name", label |-> <<"Price", Space, "List", Space, "Name">>],
      [arg |-> "product", label |-> <<"Product">>],
      [arg |-> "price", label |-> <<"Price">>],
      [arg |-> "currency", label |-> <<"Currency", Space, "Code">>]>>

\* the labels of the empty arguments of call c, in that order
EmptyLabels(c) ==
    LET sel == SelectSeq(PricelistLabels, LAMBDA e : c[e.arg] = EmptyStr)
    IN [i \in 1..Len(sel) |-> sel[i].label]

\* C6: create_pricelist names exactly the missing fields.  With at least one
\* empty argument the result is MISSING_FIELDS: followed by the labels of the
\* empty arguments, in the fixed order, separated by commas (so only
\* "Currency Code" when only currency is empty); with none empty the result is
\* not a sentinel.
C6_SentinelNamesMissingFields ==
    toolPc = "returned"
    => /\ ~toolRet.isDict
       /\ IF EmptyLabels(toolArgs) # << >>
          THEN toolRet.str = <<MISSING_FIELDS>> \o Join(<<Comma>>, EmptyLabels(toolArgs))
          ELSE ~IsSentinel(toolRet.str)
       /\ (\A k \in {"name", "product", "price"} : toolArgs[k] # EmptyStr)
          /\ toolArgs.currency = EmptyStr
          => toolRet.str = <<MISSING_FIELDS, "Currency", Space, "Code">>

\* C6 witness: a call with price and currency empty and the rest given has
\* returned.
C6_Witness ==
    /\ toolPc = "returned"
    /\ toolArgs.name # EmptyStr
    /\ toolArgs.product # EmptyStr
    /\ toolArgs.price = EmptyStr
    /\ toolArgs.currency = EmptyStr
    /\ IsSentinel(toolRet.str)

(***************************************************************************)
(* Variant 1: the arithmetic tools (lines 28-53), called on their own:     *)
(* SpecArith.  A text is a sequence of one-character strings.              *)
(***************************************************************************)
Digits == {"0", "1", "2", "3", "4", "5", "6", "7", "8", "9"}

Letters ==
    {"a", "b", "c", "d", "e", "f", "g", "h", "i", "j", "k", "l", "m", "n", "o",
     "p", "q", "r", "s", "t", "u", "v", "w", "x", "y", "z"}

\* \d
IsDigit(c) == c \in Digits

\* \w
IsWordChar(c) == c \in Digits \cup Letters \cup {"_"}

\* \b before position i (1..Len+1): exactly one side is a word character
WordBoundary(text, i) ==
    LET before == i > 1 /\ IsWordChar(text[i - 1])
        after == i <= Len(text) /\ IsWordChar(text[i])
    IN before # after

\* the end of the longest run of digits that starts at i (i - 1 when none)
RECURSIVE DigitRunEnd(_, _)
DigitRunEnd(text, i) ==
    IF i <= Len(text) /\ IsDigit(text[i]) THEN DigitRunEnd(text, i + 1) ELSE i - 1

\* \b\d+\b tried at position i: the end of the match, or 0.  \d+ is greedy and
\* gives digits back until \b holds behind it.
MatchAt(text, i) ==
    IF ~WordBoundary(text, i) THEN 0
    ELSE LET last == DigitRunEnd(text, i)
             ends == {e \in i..last : WordBoundary(text, e + 1)}
         IN IF ends = {} THEN 0 ELSE CHOOSE e \in ends : \A f \in ends : f <= e

\* re.findall(r"\b\d+\b", text): the matches from left to right, not overlapping
RECURSIVE FindAllFrom(_, _)
FindAllFrom(text, i) ==
    IF i > Len(text) THEN << >>
    ELSE LET e == MatchAt(text, i)
         IN IF e = 0 THEN FindAllFrom(text, i + 1)
            ELSE <<SubSeq(text, i, e)>> \o FindAllFrom(text, e + 1)

FindAll(text) == FindAllFrom(text, 1)

DigitValue(c) ==
    CASE c = "0" -> 0 [] c = "1" -> 1 [] c = "2" -> 2 [] c = "3" -> 3 [] c = "4" -> 4
      [] c = "5" -> 5 [] c = "6" -> 6 [] c = "7" -> 7 [] c = "8" -> 8 [] c = "9" -> 9

\* int(s) of a string of digits
RECURSIVE IntOf(_)
IntOf(s) ==
    IF s = << >> THEN 0
    ELSE 10 * IntOf(SubSeq(s, 1, Len(s) - 1)) + DigitValue(s[Len(s)])

\* f"{n}" of an int
RECURSIVE FormatNat(_)
FormatNat(n) ==
    IF n < 10 THEN <<DigitTok[n + 1]>>
    ELSE Append(FormatNat(n \div 10), DigitTok[(n % 10) + 1])

FormatInt(n) == IF n < 0 THEN <<"-">> \o FormatNat(0 - n) ELSE FormatNat(n)

\* Faulty variant of FirstTwo: the last two matches are taken.
LastTwo(nums) == SubSeq(nums, Len(nums) - 1, Len(nums))

\* nums[:2]
FirstTwo(nums) == SubSeq(nums, 1, 2)

add_two_numbers(text) ==
    LET nums == FindAll(text)
    IN IF Len(nums) >= 2
       THEN LET a == IntOf(FirstTwo(nums)[1])
                b == IntOf(FirstTwo(nums)[2])
            IN <<"The sum of ">> \o FormatInt(a) \o <<" and ">> \o FormatInt(b)
               \o <<" is ">> \o FormatInt(a + b) \o <<".">>
       ELSE <<"I couldn't find two numbers to add.">>

subtract_two_numbers(text) ==
    LET nums == FindAll(text)
    IN IF Len(nums) >= 2
       THEN LET a == IntOf(FirstTwo(nums)[1])
                b == IntOf(FirstTwo(nums)[2])
            IN <<"The difference when subtracting ">> \o FormatInt(b) \o <<" from ">>
               \o FormatInt(a) \o <<" is ">> \o FormatInt(a - b) \o <<".">>
       ELSE <<"I couldn't find two numbers to subtract.">>

multiply_two_numbers(text) ==
    LET nums == FindAll(text)
    IN IF Len(nums) >= 2
       THEN LET a == IntOf(FirstTwo(nums)[1])
                b == IntOf(FirstTwo(nums)[2])
            IN <<"The product of ">> \o FormatInt(a) \o <<" and ">> \o FormatInt(b)
               \o <<" is ">> \o FormatInt(a * b) \o <<".">>
       ELSE <<"I couldn't find two numbers to multiply.">>

\* the characters the bounded texts are made of: digits, a letter, a blank
TextChars == {"0", "1", "2", "a", " "}

\* "add 3 apples and 5 oranges and 10 bananas"
ExampleText ==
    <<"a", "d", "d", " ", "3", " ", "a", "p", "p", "l", "e", "s", " ", "a", "n", "d",
      " ", "5", " ", "o", "r", "a", "n", "g", "e", "s", " ", "a", "n", "d", " ", "1",
      "0", " ", "b", "a", "n", "a", "n", "a", "s">>

Texts == UNION {[1..n -> TextChars] : n \in 0..MaxTextLen} \cup {ExampleText}

ArithTools == {"add", "subtract", "multiply"}

ArithInit ==
    /\ SessionInit
    /\ toolArgs \in {[tool |-> t, text |-> x] : t \in ArithTools, x \in Texts}
    /\ toolRet = NoRet
    /\ toolPc = "chosen"

RunAdd ==
    /\ toolPc = "chosen"
    /\ toolArgs.tool = "add"
    /\ toolRet' = add_two_numbers(toolArgs.text)
    /\ toolPc' = "returned"
    /\ UNCHANGED <<toolArgs, sessionVars>>

RunSubtract ==
    /\ toolPc = "chosen"
    /\ toolArgs.tool = "subtract"
    /\ toolRet' = subtract_two_numbers(toolArgs.text)
    /\ toolPc' = "returned"
    /\ UNCHANGED <<toolArgs, sessionVars>>

RunMultiply ==
    /\ toolPc = "chosen"
    /\ toolArgs.tool = "multiply"
    /\ toolRet' = multiply_two_numbers(toolArgs.text)
    /\ toolPc' = "returned"
    /\ UNCHANGED <<toolArgs, sessionVars>>

ArithNext == RunAdd \/ RunSubtract \/ RunMultiply

SpecArith == ArithInit /\ [][ArithNext]_vars

\* text[i..e] is an unsigned decimal integer token: digits only, with no word
\* character next to it on either side
IsNumberToken(text, i, e) ==
    /\ i <= e
    /\ \A k \in i..e : IsDigit(text[k])
    /\ i = 1 \/ ~IsWordChar(text[i - 1])
    /\ e = Len(text) \/ ~IsWordChar(text[e + 1])

NumberTokens(text) ==
    {p \in (1..Len(text)) \X (1..Len(text)) : IsNumberToken(text, p[1], p[2])}

\* the token of toks that starts leftmost
Leftmost(toks) == CHOOSE p \in toks : \A q \in toks : p[1] <= q[1]

RECURSIVE Pow10(_)
Pow10(k) == IF k = 0 THEN 1 ELSE 10 * Pow10(k - 1)

RECURSIVE PlaceSum(_, _, _)
PlaceSum(text, i, e) ==
    IF i > e THEN 0
    ELSE DigitValue(text[i]) * Pow10(e - i) + PlaceSum(text, i + 1, e)

\* the number a token denotes
TokenValue(text, p) == PlaceSum(text, p[1], p[2])

\* the sentence of tool t for the numbers a and b
Sentence(t, a, b) ==
    CASE t = "add" ->
           <<"The sum of ">> \o FormatInt(a) \o <<" and ">> \o FormatInt(b)
           \o <<" is ">> \o FormatInt(a + b) \o <<".">>
      [] t = "subtract" ->
           <<"The difference when subtracting ">> \o FormatInt(b) \o <<" from ">>
           \o FormatInt(a) \o <<" is ">> \o FormatInt(a - b) \o <<".">>
      [] t = "multiply" ->
           <<"The product of ">> \o FormatInt(a) \o <<" and ">> \o FormatInt(b)
           \o <<" is ">> \o FormatInt(a * b) \o <<".">>

Fallback(t) ==
    CASE t = "add" -> <<"I couldn't find two numbers to add.">>
      [] t = "subtract" -> <<"I couldn't find two numbers to subtract.">>
      [] t = "multiply" -> <<"I couldn't find two numbers to multiply.">>

\* C5: each arithmetic tool uses exactly the first two integer tokens of the
\* text, in left-to-right order, whatever numbers follow; with fewer than two
\* tokens it returns its fixed sentence.  For "add 3 apples and 5 oranges and
\* 10 bananas" the sum sentence names 3, 5 and 8.
C5_FirstTwoNumbers ==
    toolPc = "returned"
    => LET text == toolArgs.text
           toks == NumberTokens(text)
       IN /\ IF Cardinality(toks) >= 2
             THEN LET first == Leftmost(toks)
                      second == Leftmost(toks \ {first})
                  IN toolRet = Sentence(toolArgs.tool, TokenValue(text, first),
                                        TokenValue(text, second))
             ELSE toolRet = Fallback(toolArgs.tool)
          /\ (text = ExampleText /\ toolArgs.tool = "add")
             => toolRet = <<"The sum of ", "3", " and ", "5", " is ", "8", ".">>

\* C5 witness: subtract has run on a text with three numbers whose first two
\* differ from its last two.
C5_Witness ==
    /\ toolPc = "returned"
    /\ toolArgs.tool = "subtract"
    /\ toolArgs.text = <<"1", " ", "2", " ", "0">>
    /\ toolRet = <<"The difference when subtracting ", "2", " from ", "1", " is ",
                   "-", "1", ".">>

=============================================================================
